---------------------------- MODULE Spec2Model ----------------------------
(***************************************************************************)
(* Model of the time-series simulator: DataGenerator.generate and the      *)
(* synthesizers and corruptors it calls (src/data_simulator.py).           *)
(*                                                                         *)
(* Numbers.  A float is modelled by an exact rational [n |-> num,          *)
(* d |-> den] in lowest terms with d > 0; NaN is the record with d = 0.    *)
(* The sines the code takes of hour, weekday and quarter are tabulated to  *)
(* one decimal (SinDen), and every sine of a multiple of pi is 0.          *)
(*                                                                         *)
(* Time.  A timestamp is the number of minutes since 2021-01-01 00:00.     *)
(*                                                                         *)
(* Positions.  A series is a sequence indexed 1..n; position i of the      *)
(* model is index i-1 of the numpy array or pandas Series.                 *)
(*                                                                         *)
(* Randomness.  Every draw of random / numpy.random is an input of the     *)
(* action that makes it, chosen with \E from a bounded set of outcomes.    *)
(***************************************************************************)
EXTENDS Integers, Sequences, FiniteSets, TLC

VARIABLES
    pc,          \* position of the generator: the statement it runs next
    ci,          \* index of the current combination in the product of config_params
    rep,         \* iterations of `for _ in range(16)` begun for this combination
    counter,     \* the local `counter` of generate
    nyield,      \* pairs the generator has handed to its consumer so far
    data_size,   \* the locals of generate, for the current repeat
    freq,
    date_rng,
    comps,       \* the four components
    data,
    anomaly,
    call,        \* the last direct call of a synthesizer or corruptor
    gens,        \* the frames of two generators obtained from one DataGenerator
    legacy       \* the legacy script's main: its loop variables and manifest

vars == <<pc, ci, rep, counter, nyield, data_size, freq, date_rng, comps, data, anomaly, call,
          gens, legacy>>

genVars == <<pc, ci, rep, counter, nyield, data_size, freq, date_rng, comps, data, anomaly,
             gens, legacy>>

-----------------------------------------------------------------------------
(* Rational arithmetic standing for the float arithmetic of numpy.          *)

Abs(x) == IF x < 0 THEN -x ELSE x

Min(a, b) == IF a < b THEN a ELSE b

Max(a, b) == IF a < b THEN b ELSE a

RECURSIVE GCD(_, _)
GCD(a, b) == IF b = 0 THEN a ELSE GCD(b, a % b)

NaN == [n |-> 0, d |-> 0]

(* num / den in lowest terms; a zero denominator gives NaN (every float     *)
(* that is not finite is modelled by NaN).                                  *)
Rat(num, den) ==
    IF den = 0 THEN NaN
    ELSE LET g == GCD(Abs(num), den)
         IN  [n |-> num \div g, d |-> den \div g]

IsNaN(x) == x.d = 0

Zero == [n |-> 0, d |-> 1]

One == [n |-> 1, d |-> 1]

RNeg(a) == [n |-> -a.n, d |-> a.d]

RAbs(a) == [n |-> Abs(a.n), d |-> a.d]

RAdd(a, b) == Rat(a.n * b.d + b.n * a.d, a.d * b.d)

RSub(a, b) == RAdd(a, RNeg(b))

RMul(a, b) == Rat(a.n * b.n, a.d * b.d)

RDiv(a, b) ==
    IF b.n < 0 THEN Rat(-(a.n * b.d), a.d * (-b.n)) ELSE Rat(a.n * b.d, a.d * b.n)

RLt(a, b) == a.n * b.d < b.n * a.d

RLe(a, b) == a.n * b.d <= b.n * a.d

Range(s) == {s[i] : i \in DOMAIN s}

SeqMin(s) == CHOOSE m \in Range(s) : \A y \in Range(s) : RLe(m, y)

SeqMax(s) == CHOOSE m \in Range(s) : \A y \in Range(s) : RLe(y, m)


-----------------------------------------------------------------------------
(* The configuration the DataGenerator is constructed with.  Probabilities  *)
(* are held in percent: 5 is the 0.05 of the configuration.                 *)

MinutesPerDay == 24 * 60

start_date == 270 * MinutesPerDay          \* 2021-09-28 00:00, a Tuesday

frequencies == <<"1D", "6H">>

daily_seasonality_options == <<"no", "exist">>

weekly_seasonality_options == <<"no", "exist">>

noise_levels == <<"small">>

trend_levels == <<"no", "exist">>

cyclic_periods == <<"exist", "no">>

data_types == <<"", "additive", "multiplicative">>

percentage_outliers_options == <<5>>

data_sizes == <<2, 5>>

(* The offset a frequency token stands for, in minutes. *)
FreqMinutes(f) ==
    CASE f = "1D"  -> MinutesPerDay
      [] f = "12H" -> 12 * 60
      [] f = "8H"  -> 8 * 60
      [] f = "6H"  -> 6 * 60
      [] f = "1H"  -> 60
      [] f = "30T" -> 30
      [] f = "10T" -> 10

-----------------------------------------------------------------------------
(* pandas: the calendar fields of a timestamp.                              *)

DayOfYear(ts) == (ts \div MinutesPerDay) % 365

hour(ts) == (ts % MinutesPerDay) \div 60

dayofweek(ts) == ((ts \div MinutesPerDay) + 4) % 7   \* 2021-01-01 is a Friday; Monday is 0

quarter(ts) ==
    LET doy == DayOfYear(ts)
    IN  IF doy < 90 THEN 1 ELSE IF doy < 181 THEN 2 ELSE IF doy < 273 THEN 3 ELSE 4

(* The days of the months of a year that is not a leap year. *)
MonthLengths == <<31, 28, 31, 30, 31, 30, 31, 31, 30, 31, 30, 31>>

RECURSIVE DaysBeforeMonth(_)
DaysBeforeMonth(m) == IF m = 1 THEN 0 ELSE DaysBeforeMonth(m - 1) + MonthLengths[m - 1]

month(ts) ==
    CHOOSE m \in 1..12 :
        /\ DaysBeforeMonth(m) <= DayOfYear(ts)
        /\ DayOfYear(ts) < DaysBeforeMonth(m) + MonthLengths[m]

(* Whether ts is on the anchor of the offset "M": the last day of a month. *)
IsMonthEnd(ts) == DayOfYear(ts) + 1 = DaysBeforeMonth(month(ts)) + MonthLengths[month(ts)]

RECURSIVE SortedSeq(_)
SortedSeq(S) ==
    IF S = {} THEN <<>>
    ELSE LET m == CHOOSE x \in S : \A y \in S : x <= y
         IN  <<m>> \o SortedSeq(S \ {m})

(* pd.date_range with the calendar-anchored offset "M": start is rolled      *)
(* forward to a month end, keeping its time of day, and the month ends up to *)
(* end follow.                                                               *)
MonthEnds(start, end) ==
    SortedSeq({t \in {d * MinutesPerDay + (start % MinutesPerDay) :
                        d \in (start \div MinutesPerDay)..(end \div MinutesPerDay)} :
                 t <= end /\ IsMonthEnd(t)})

(* Mutant: the range is open at its end. *)
generate_time_series_end_excluded(start, end, f) ==
    IF f = "M"
    THEN MonthEnds(start, end - 1)
    ELSE [k \in 1..((end - start - 1) \div FreqMinutes(f) + 1) |->
            start + (k - 1) * FreqMinutes(f)]

(* TimeSeriesGenerator.generate_time_series: pd.date_range(start, end, freq). *)
(* For a fixed-offset frequency: start, start + freq, ... up to end.          *)
generate_time_series(start, end, f) ==
    IF f = "M"
    THEN MonthEnds(start, end)
    ELSE [k \in 1..((end - start) \div FreqMinutes(f) + 1) |-> start + (k - 1) * FreqMinutes(f)]

-----------------------------------------------------------------------------
(* numpy.sin, tabulated to one decimal.                                     *)

SinDen == 10

SinDayTable ==
    <<0, 3, 5, 7, 9, 10, 10, 10, 9, 7, 5, 3, 0, -3, -5, -7, -9, -10, -10, -10, -9, -7, -5, -3>>

SinWeekTable == <<0, 8, 10, 4, -4, -10, -8>>

SinQuarterTable == <<0, 10, 0, -10>>

SinDay(h) == Rat(SinDayTable[h + 1], SinDen)          \* sin(2 pi h / 24)

SinWeek(dow) == Rat(SinWeekTable[dow + 1], SinDen)    \* sin(2 pi dow / 7)

SinQuarter(q) == Rat(SinQuarterTable[q], SinDen)      \* sin(2 pi (q - 1) / 4)

zeros(n) == [i \in 1..n |-> Zero]

ones(n) == [i \in 1..n |-> One]

(* numpy.linspace(a, b, num) *)
linspace(a, b, num) ==
    [i \in 1..num |->
        IF num = 1 THEN a
        ELSE RAdd(a, RMul(Rat(i - 1, num - 1), RSub(b, a)))]

-----------------------------------------------------------------------------
(* The synthesizers.                                                         *)

WeeklySeasonality(axis, seasonality, season_type) ==
    IF seasonality = "exist"
    THEN [i \in 1..Len(axis) |->
            RAdd(SinWeek(dayofweek(axis[i])),
                 IF season_type = "multiplicative" THEN One ELSE Zero)]
    ELSE IF season_type = "additive" THEN zeros(Len(axis)) ELSE ones(Len(axis))

DailySeasonality(axis, seasonality, season_type) ==
    IF seasonality = "exist"
    THEN [i \in 1..Len(axis) |->
            RAdd(SinDay(hour(axis[i])),
                 IF season_type = "multiplicative" THEN One ELSE Zero)]
    ELSE IF season_type = "additive" THEN zeros(Len(axis)) ELSE ones(Len(axis))

(* Mutant: a ramp of fixed height, whatever the data size. *)
add_trend_fixed_height(axis, trend, size, data_type, slope) ==
    IF trend = "exist"
    THEN IF slope = 1
         THEN linspace(Zero, One, Len(axis))
         ELSE linspace(RNeg(One), Zero, Len(axis))
    ELSE IF data_type = "additive" THEN zeros(Len(axis)) ELSE ones(Len(axis))

(* Mutant: the slope -1 gives a falling ramp. *)
add_trend_falling(axis, trend, size, data_type, slope) ==
    IF trend = "exist"
    THEN linspace(Zero, Rat(size * slope, 30), Len(axis))
    ELSE IF data_type = "additive" THEN zeros(Len(axis)) ELSE ones(Len(axis))

(* Trend.add_trend; slope is the outcome of random.choice([1, -1]). *)
add_trend(axis, trend, size, data_type, slope) ==
    IF trend = "exist"
    THEN IF slope = 1
         THEN linspace(Zero, Rat(size * slope, 30), Len(axis))
         ELSE linspace(Rat(-1 * size, 30), Zero, Len(axis))
    ELSE IF data_type = "additive" THEN zeros(Len(axis)) ELSE ones(Len(axis))

(* Cycles.add_cycles returns a sequence when the cycle exists and a bare     *)
(* number otherwise; `scalar` tells which.                                   *)
add_cycles(axis, cyclic, season_type) ==
    IF cyclic = "exist"
    THEN [scalar |-> FALSE,
          val |-> [i \in 1..Len(axis) |->
                     RAdd(IF season_type = "multiplicative" THEN One ELSE Zero,
                          SinQuarter(quarter(axis[i])))]]
    ELSE [scalar |-> TRUE,
          val |-> IF season_type = "additive" THEN Zero ELSE One]

(* pandas broadcasts a bare number over the series it is combined with. *)
Broadcast(c, n) == IF c.scalar THEN [i \in 1..n |-> c.val] ELSE c.val

(* Lines 100-103 of generate: the base signal. *)
Compose(data_type, daily, weekly, trend, cyclic) ==
    IF data_type = "multiplicative"
    THEN [i \in 1..Len(daily) |->
            RMul(RMul(RMul(daily[i], weekly[i]), trend[i]), Broadcast(cyclic, Len(daily))[i])]
    ELSE [i \in 1..Len(daily) |->
            RAdd(RAdd(RAdd(daily[i], weekly[i]), trend[i]), Broadcast(cyclic, Len(daily))[i])]

(* Mutant: a zero data_range is divided by as it is. *)
HandleZerosInScaleUnguarded(r) == r

(* Mutant: the scaler's default feature_range, (0, 1). *)
MinMaxScaleZeroOne(X) ==
    LET data_min   == SeqMin(X)
        data_range == RSub(SeqMax(X), data_min)
        scale      == RDiv(One, IF data_range.n = 0 THEN One ELSE data_range)
        min_       == RSub(Zero, RMul(data_min, scale))
    IN  [i \in 1..Len(X) |-> RAdd(RMul(X[i], scale), min_)]

(* sklearn MinMaxScaler(feature_range=(-1, 1)).fit_transform on one column:  *)
(* scale_ = (1 - (-1)) / data_range, with a zero data_range replaced by 1;   *)
(* min_ = -1 - data_min * scale_; the result is X * scale_ + min_.           *)
HandleZerosInScale(r) == IF r.n = 0 THEN One ELSE r

MinMaxScale(X) ==
    LET data_min   == SeqMin(X)
        data_range == RSub(SeqMax(X), data_min)
        scale      == RDiv(Rat(2, 1), HandleZerosInScale(data_range))
        min_       == RSub(Rat(-1, 1), RMul(data_min, scale))
    IN  [i \in 1..Len(X) |-> RAdd(RMul(X[i], scale), min_)]

-----------------------------------------------------------------------------
(* The corruptors.  Their random draws are parameters.                       *)

(* Mutant: the product rounded to the nearest integer instead of truncated. *)
IntOfProductRounded(len, pct) == (len * pct + 50) \div 100

(* int(len(data) * percentage): the product truncated; pct is in percent. *)
IntOfProduct(len, pct) == (len * pct) \div 100

(* The coefficient a noise level stands for. *)
NoiseCoefficient(noise_level) ==
    IF noise_level = "small" THEN Rat(1, 10)
    ELSE IF noise_level = "large" THEN Rat(3, 10)
    ELSE Zero

(* Mutant: noise of a deviation that does not scale with the value. *)
add_noise_unscaled(X, noise_level, z) ==
    [i \in 1..Len(X) |-> RAdd(X[i], RMul(NoiseCoefficient(noise_level), z[i]))]

(* Noise.add_noise; z[i] is the standard normal outcome behind the i-th      *)
(* np.random.normal(0, sd), which is sd * z[i].                              *)
add_noise(X, noise_level, z) ==
    LET coef == NoiseCoefficient(noise_level)
    IN  [i \in 1..Len(X) |->
            RAdd(X[i],
                 IF coef.n > 0 THEN RMul(RMul(RAbs(X[i]), coef), z[i]) ELSE Zero)]

(* The position in `indices` of i, or 0. *)
IndexOf(indices, i) ==
    IF \E j \in 1..Len(indices) : indices[j] = i
    THEN CHOOSE j \in 1..Len(indices) : indices[j] = i
    ELSE 0

(* Mutant: the mask flags the positions whose value differs from the input. *)
add_outliers_flag_changed(X, outlier_indices, outliers) ==
    LET replaced == [i \in 1..Len(X) |->
                       IF IndexOf(outlier_indices, i) > 0
                       THEN outliers[IndexOf(outlier_indices, i)]
                       ELSE X[i]]
    IN  [data |-> replaced, anomaly |-> [i \in 1..Len(X) |-> replaced[i] # X[i]]]

(* Outliers.add_outliers; outlier_indices is the outcome of                  *)
(* np.random.choice(len, num_outliers, replace=False) and outliers that of   *)
(* np.random.uniform(-1, 1, num_outliers).                                   *)
add_outliers(X, outlier_indices, outliers) ==
    IF Len(outliers) > 0
    THEN [data    |-> [i \in 1..Len(X) |->
                         IF IndexOf(outlier_indices, i) > 0
                         THEN outliers[IndexOf(outlier_indices, i)]
                         ELSE X[i]],
          anomaly |-> [i \in 1..Len(X) |-> IndexOf(outlier_indices, i) > 0]]
    ELSE [data |-> X, anomaly |-> [i \in 1..Len(X) |-> FALSE]]

(* Mutant: the selected positions are removed from the series. *)
add_missing_values_dropped(X, missing_indices) ==
    SelectSeq([i \in 1..Len(X) |-> IF IndexOf(missing_indices, i) > 0 THEN NaN ELSE X[i]],
              LAMBDA x : ~IsNaN(x))

(* MissingValues.add_missing_values; missing_indices is the outcome of       *)
(* np.random.choice(len, num_missing, replace=False).                        *)
add_missing_values(X, missing_indices) ==
    [i \in 1..Len(X) |-> IF IndexOf(missing_indices, i) > 0 THEN NaN ELSE X[i]]

-----------------------------------------------------------------------------
(* The outcomes of the random draws that are enumerated.                     *)

DrawSpan == 2      \* positions whose draws are enumerated in generate

MaxLen == 3        \* longest series handed to a corruptor called directly

(* Mutant: the positions drawn with replacement. *)
IndexDrawsWithReplacement(n, k, span) == [1..k -> 1..Min(n, Max(span, k))]

(* np.random.choice(n, k, replace=False): k distinct positions among the     *)
(* first `span` (at least k) of 1..n.                                        *)
IndexDraws(n, k, span) ==
    {SortedSeq(S) : S \in {T \in SUBSET (1..Min(n, Max(span, k))) : Cardinality(T) = k}}

(* Mutant: outlier values drawn from a wider interval. *)
UniformOutcomesWide == {Rat(-2, 1), Rat(1, 2)}

(* np.random.uniform(-1, 1, k) *)
UniformOutcomes == {Rat(-1, 1), Rat(1, 2)}

UniformDraws(k) == [1..k -> UniformOutcomes]

(* The standard normal outcomes behind np.random.normal: one per position,   *)
(* repeating with period `span`.                                             *)
NormalOutcomes == {Rat(-1, 1), Rat(4, 1)}

NormalDraws(n, span) ==
    {[i \in 1..n |-> p[((i - 1) % span) + 1]] : p \in [1..span -> NormalOutcomes]}

-----------------------------------------------------------------------------
(* DataGenerator.generate                                                    *)

Repeats == 16

PercentageMissing == 5

config_params ==
    <<daily_seasonality_options, weekly_seasonality_options, noise_levels, trend_levels,
      cyclic_periods, percentage_outliers_options, data_types>>

(* Mutant: the first axis varies fastest. *)
RECURSIVE product_first_axis_fastest(_)
product_first_axis_fastest(axes) ==
    IF axes = <<>> THEN << <<>> >>
    ELSE LET h    == Head(axes)
             rest == product_first_axis_fastest(Tail(axes))
         IN  [k \in 1..(Len(h) * Len(rest)) |->
                <<h[((k - 1) % Len(h)) + 1]>> \o rest[((k - 1) \div Len(h)) + 1]]

(* itertools.product over the axes: the last axis varies fastest. *)
RECURSIVE product(_)
product(axes) ==
    IF axes = <<>> THEN << <<>> >>
    ELSE LET h    == Head(axes)
             rest == product(Tail(axes))
             m    == Len(rest)
         IN  [k \in 1..(Len(h) * m) |-> <<h[((k - 1) \div m) + 1]>> \o rest[((k - 1) % m) + 1]]

combinations == product(config_params)

configs == combinations[ci]

daily_seasonality == configs[1]

weekly_seasonality == configs[2]

noise_level == configs[3]

trend == configs[4]

percentage_outliers == configs[6]

data_type == configs[7]

(* Mutant: the combination's cyclic_period is kept. *)
cyclic_period_of_combination == configs[5]

(* Line 97 overwrites the combination's cyclic_period before it is used. *)
cyclic_period == "exist"

(* The two generator objects of the interleaved run. *)
Generators == {1, 2}

(* A generator object as generate() returns it: no statement of the body has *)
(* run yet.                                                                  *)
NewFrame == [pc |-> "created", ci |-> 0, rep |-> 0, counter |-> 0, nyield |-> 0, id |-> ""]

(* main of the legacy script before its loops: lines 190-191. *)
MainStart ==
    [pc |-> "loops", idx |-> <<>>, rep |-> 0, counter |-> 0, cyclic_period |-> "",
     meta_data_len |-> 0, last |-> <<>>]

Init ==
    /\ pc = "loop"
    /\ ci = 0
    /\ rep = 0
    /\ counter = 0
    /\ nyield = 0
    /\ data_size = 0
    /\ freq = ""
    /\ date_rng = <<>>
    /\ comps = <<>>
    /\ data = <<>>
    /\ anomaly = <<>>
    /\ call = [op |-> "none"]
    /\ gens = [g \in Generators |-> NewFrame]
    /\ legacy = MainStart

(* Whether the loops of lines 74 and 77 have another iteration. *)
HasNext == IF ci > 0 /\ rep < Repeats THEN TRUE ELSE ci < Len(combinations)

(* Lines 74-98: the loop headers, the draws of size and frequency, the time  *)
(* axis and the four components.                                             *)
NextRepeat ==
    /\ pc = "loop"
    /\ HasNext
    /\ ci' = IF ci > 0 /\ rep < Repeats THEN ci ELSE ci + 1
    /\ rep' = IF ci > 0 /\ rep < Repeats THEN rep + 1 ELSE 1
    /\ counter' = counter + 1
    /\ \E size \in Range(data_sizes), f \in Range(frequencies) :
         /\ data_size' = size
         /\ freq' = f
         /\ date_rng' = generate_time_series(start_date, start_date + size * MinutesPerDay, f)
         /\ \E slope \in (IF trend' = "exist" THEN {1, -1} ELSE {1}) :
              comps' = [daily  |-> DailySeasonality(date_rng', daily_seasonality', data_type'),
                        weekly |-> WeeklySeasonality(date_rng', weekly_seasonality', data_type'),
                        trend  |-> add_trend(date_rng', trend', size, data_type', slope),
                        cyclic |-> add_cycles(date_rng', cyclic_period', data_type')]
    /\ pc' = "compose"
    /\ UNCHANGED <<nyield, data, anomaly, call, gens, legacy>>

(* Lines 100-103. *)
ComposeStage ==
    /\ pc = "compose"
    /\ data' = Compose(data_type, comps.daily, comps.weekly, comps.trend, comps.cyclic)
    /\ pc' = "rescale"
    /\ UNCHANGED <<ci, rep, counter, nyield, data_size, freq, date_rng, comps, anomaly, call, gens, legacy>>

(* Lines 105-106.  fit_transform raises ValueError on an array without rows. *)
RescaleStage ==
    /\ pc = "rescale"
    /\ IF Len(data) = 0
       THEN pc' = "raised" /\ data' = data
       ELSE pc' = "noise" /\ data' = MinMaxScale(data)
    /\ UNCHANGED <<ci, rep, counter, nyield, data_size, freq, date_rng, comps, anomaly, call, gens, legacy>>

(* Line 107. *)
NoiseStage ==
    /\ pc = "noise"
    /\ \E z \in (IF NoiseCoefficient(noise_level).n > 0
                 THEN NormalDraws(Len(data), DrawSpan)
                 ELSE {zeros(Len(data))}) :
         data' = add_noise(data, noise_level, z)
    /\ pc' = "outliers"
    /\ UNCHANGED <<ci, rep, counter, nyield, data_size, freq, date_rng, comps, anomaly, call, gens, legacy>>

(* Mutant: the series is scaled again after the outliers are written. *)
OutliersStageRescaled ==
    /\ pc = "outliers"
    /\ LET num_outliers == IntOfProduct(Len(data), percentage_outliers)
       IN  \E outlier_indices \in IndexDraws(Len(data), num_outliers, DrawSpan),
              outliers \in UniformDraws(num_outliers) :
             /\ data' = MinMaxScale(add_outliers(data, outlier_indices, outliers).data)
             /\ anomaly' = add_outliers(data, outlier_indices, outliers).anomaly
    /\ pc' = "missing"
    /\ UNCHANGED <<ci, rep, counter, nyield, data_size, freq, date_rng, comps, call, gens, legacy>>

(* Line 108. *)
OutliersStage ==
    /\ pc = "outliers"
    /\ LET num_outliers == IntOfProduct(Len(data), percentage_outliers)
       IN  \E outlier_indices \in IndexDraws(Len(data), num_outliers, DrawSpan),
              outliers \in UniformDraws(num_outliers) :
             /\ data' = add_outliers(data, outlier_indices, outliers).data
             /\ anomaly' = add_outliers(data, outlier_indices, outliers).anomaly
    /\ pc' = "missing"
    /\ UNCHANGED <<ci, rep, counter, nyield, data_size, freq, date_rng, comps, call, gens, legacy>>

(* Mutant: the missing positions are labelled as anomalies. *)
MissingStageLabelled ==
    /\ pc = "missing"
    /\ LET num_missing == IntOfProduct(Len(data), PercentageMissing)
       IN  \E missing_indices \in IndexDraws(Len(data), num_missing, DrawSpan) :
             /\ data' = add_missing_values(data, missing_indices)
             /\ anomaly' = [i \in 1..Len(anomaly) |->
                              anomaly[i] \/ IndexOf(missing_indices, i) > 0]
    /\ pc' = "yielded"
    /\ nyield' = nyield + 1
    /\ UNCHANGED <<ci, rep, counter, data_size, freq, date_rng, comps, call, gens, legacy>>

(* Lines 109-122: the missing values, then the yield, where the generator    *)
(* is suspended.                                                             *)
MissingStage ==
    /\ pc = "missing"
    /\ LET num_missing == IntOfProduct(Len(data), PercentageMissing)
       IN  \E missing_indices \in IndexDraws(Len(data), num_missing, DrawSpan) :
             data' = add_missing_values(data, missing_indices)
    /\ pc' = "yielded"
    /\ nyield' = nyield + 1
    /\ UNCHANGED <<ci, rep, counter, data_size, freq, date_rng, comps, anomaly, call, gens, legacy>>

(* The consumer asks for the next pair: the generator resumes after the     *)
(* yield, at the loop header.  The locals of the repeat just yielded are    *)
(* dead from here on (each is assigned again before it is read) and are     *)
(* dropped.                                                                 *)
Resume ==
    /\ pc = "yielded"
    /\ pc' = "loop"
    /\ data_size' = 0
    /\ freq' = ""
    /\ date_rng' = <<>>
    /\ comps' = <<>>
    /\ data' = <<>>
    /\ anomaly' = <<>>
    /\ UNCHANGED <<ci, rep, counter, nyield, call, gens, legacy>>

(* The loops are exhausted: the generator returns. *)
Finish ==
    /\ pc = "loop"
    /\ ~HasNext
    /\ pc' = "done"
    /\ UNCHANGED <<ci, rep, counter, nyield, data_size, freq, date_rng, comps, data, anomaly, call, gens, legacy>>

(* str of a non-negative int: its decimal digits. *)
Digits == <<"0", "1", "2", "3", "4", "5", "6", "7", "8", "9">>

RECURSIVE str(_)
str(n) == IF n < 10 THEN Digits[n + 1] ELSE str(n \div 10) \o Digits[(n % 10) + 1]

(* Mutant: the id numbered within the combination. *)
id_of_repeat == str(rep) \o ".csv"

(* Line 112: the value of the key 'id'. *)
id == str(counter) \o ".csv"

(* Mutant: percentage_missing reported as the fraction of the values that   *)
(* are NaN, in percent.                                                      *)
percentage_missing_realized ==
    (100 * Cardinality({i \in DOMAIN data : IsNaN(data[i])})) \div Max(Len(data), 1)

(* Line 121: the value of the key 'percentage_missing', the literal 0.05,   *)
(* in percent.                                                               *)
percentage_missing == PercentageMissing

(* Lines 112-122: the metadata record yielded with the series.  The         *)
(* percentages are in percent.                                               *)
Metadata ==
    [id                 |-> id,
     data_type          |-> data_type,
     daily_seasonality  |-> daily_seasonality,
     weekly_seasonality |-> weekly_seasonality,
     trend              |-> trend,
     data_size          |-> data_size,
     percentage_outliers |-> percentage_outliers,
     percentage_missing |-> percentage_missing,
     freq               |-> freq]
    @@ ("noise (high 30% - low 10%)" :> noise_level)
    @@ ("cyclic_period (3 months)" :> cyclic_period)

(* What the generator has yielded when it is suspended at the yield. *)
Series == [value |-> data, timestamp |-> date_rng, anomaly |-> anomaly]

Next ==
    \/ NextRepeat
    \/ ComposeStage
    \/ RescaleStage
    \/ NoiseStage
    \/ OutliersStage
    \/ MissingStage
    \/ Resume
    \/ Finish

Spec == Init /\ [][Next]_vars

-----------------------------------------------------------------------------
(* The synthesizers and corruptors called directly, on inputs drawn from    *)
(* bounded sets.  A behaviour makes one call; `call` records its arguments  *)
(* and its result.                                                          *)

ValueInputs == {Rat(-3, 2), Zero, Rat(1, 2)}

SeriesInputs == UNION {[1..n -> ValueInputs] : n \in 0..MaxLen}

PercentageInputs == {0, 5, 50, 75, 100}

AxisInputs ==
    {generate_time_series(start_date, start_date + size * MinutesPerDay, f) :
        size \in Range(data_sizes), f \in Range(frequencies)}

PresenceInputs == {"exist", "no"}

ModeInputs == {"additive", "multiplicative", ""}

CallAddOutliers ==
    /\ call.op = "none"
    /\ \E X \in SeriesInputs, pct \in PercentageInputs :
         LET num_outliers == IntOfProduct(Len(X), pct)
         IN  \E outlier_indices \in IndexDraws(Len(X), num_outliers, Len(X)),
                outliers \in UniformDraws(num_outliers) :
               call' = [op      |-> "add_outliers",
                        X       |-> X,
                        pct     |-> pct,
                        indices |-> outlier_indices,
                        result  |-> add_outliers(X, outlier_indices, outliers).data,
                        anomaly |-> add_outliers(X, outlier_indices, outliers).anomaly]
    /\ UNCHANGED genVars

CallAddMissingValues ==
    /\ call.op = "none"
    /\ \E X \in SeriesInputs, pct \in PercentageInputs :
         LET num_missing == IntOfProduct(Len(X), pct)
         IN  \E missing_indices \in IndexDraws(Len(X), num_missing, Len(X)) :
               call' = [op      |-> "add_missing_values",
                        X       |-> X,
                        pct     |-> pct,
                        indices |-> missing_indices,
                        result  |-> add_missing_values(X, missing_indices)]
    /\ UNCHANGED genVars

CallWeeklySeasonality ==
    /\ call.op = "none"
    /\ \E axis \in AxisInputs, seasonality \in PresenceInputs, season_type \in ModeInputs :
         call' = [op     |-> "WeeklySeasonality",
                  axis   |-> axis,
                  flag   |-> seasonality,
                  mode   |-> season_type,
                  result |-> [scalar |-> FALSE,
                              val |-> WeeklySeasonality(axis, seasonality, season_type)]]
    /\ UNCHANGED genVars

CallDailySeasonality ==
    /\ call.op = "none"
    /\ \E axis \in AxisInputs, seasonality \in PresenceInputs, season_type \in ModeInputs :
         call' = [op     |-> "DailySeasonality",
                  axis   |-> axis,
                  flag   |-> seasonality,
                  mode   |-> season_type,
                  result |-> [scalar |-> FALSE,
                              val |-> DailySeasonality(axis, seasonality, season_type)]]
    /\ UNCHANGED genVars

CallAddTrend ==
    /\ call.op = "none"
    /\ \E axis \in AxisInputs, flag \in PresenceInputs, mode \in ModeInputs,
          size \in Range(data_sizes), slope \in {1, -1} :
         call' = [op     |-> "add_trend",
                  axis   |-> axis,
                  flag   |-> flag,
                  mode   |-> mode,
                  size   |-> size,
                  slope  |-> slope,
                  result |-> [scalar |-> FALSE,
                              val |-> add_trend(axis, flag, size, mode, slope)]]
    /\ UNCHANGED genVars

CallAddCycles ==
    /\ call.op = "none"
    /\ \E axis \in AxisInputs, cyclic \in PresenceInputs, season_type \in ModeInputs :
         call' = [op     |-> "add_cycles",
                  axis   |-> axis,
                  flag   |-> cyclic,
                  mode   |-> season_type,
                  result |-> add_cycles(axis, cyclic, season_type)]
    /\ UNCHANGED genVars

(* Starts: the configured one; 2021-07-01 00:00, the start of the test;      *)
(* 2021-07-31 06:00, on a month end.                                         *)
StartInputs == {start_date, 181 * MinutesPerDay, 211 * MinutesPerDay + 6 * 60}

(* end - start, in minutes: nothing; a day and a half; 93 days, the range    *)
(* of the test.                                                              *)
SpanInputs == {0, 36 * 60, 93 * MinutesPerDay}

FrequencyInputs == {"1D", "6H", "1H", "M"}

CallGenerateTimeSeries ==
    /\ call.op = "none"
    /\ \E start \in StartInputs, span \in SpanInputs, f \in FrequencyInputs :
         call' = [op     |-> "generate_time_series",
                  start  |-> start,
                  end    |-> start + span,
                  freq   |-> f,
                  result |-> generate_time_series(start, start + span, f)]
    /\ UNCHANGED genVars

(* str.endswith *)
endswith(s, suffix) ==
    /\ Len(s) >= Len(suffix)
    /\ SubSeq(s, Len(s) - Len(suffix) + 1, Len(s)) = suffix

(* The constructor of a configuration manager stores the source and calls    *)
(* read, which opens it; whether the source can be read is the               *)
(* environment's choice.                                                     *)
ConfigurationManager(class, readable) ==
    IF readable
    THEN [outcome |-> "returned", what |-> class, read_called |-> TRUE]
    ELSE [outcome |-> "raised", what |-> "OSError", read_called |-> TRUE]

(* ConfigurationManagerCreator.create(source, simulator_name), called with   *)
(* the positional arguments args: a call that does not bind both parameters  *)
(* raises TypeError before the body runs.                                    *)
create(args, readable) ==
    IF Len(args) # 2
    THEN [outcome |-> "raised", what |-> "TypeError", read_called |-> FALSE]
    ELSE LET source == args[1]
         IN  IF endswith(source, ".yml")
             THEN ConfigurationManager("YamlConfigurationManager", readable)
             ELSE IF endswith(source, ".json")
             THEN ConfigurationManager("JsonConfigurationManager", readable)
             ELSE IF endswith(source, ".sqlite3")
             THEN ConfigurationManager("DatabaseReader", readable)
             ELSE [outcome |-> "raised", what |-> "Exception", read_called |-> FALSE]

SourceInputs == {"example.yml", "example1.json", "example.env", "db.sqlite3", "yml"}

CallCreate ==
    /\ call.op = "none"
    /\ \E source \in SourceInputs, readable \in BOOLEAN :
         \E args \in {<<source>>, <<source, "simulator">>} :
           call' = [op     |-> "create",
                    args   |-> args,
                    result |-> create(args, readable)]
    /\ UNCHANGED genVars

(* Mutant: the base signal is handed on as composed, without rescaling. *)
BaseSeriesUnscaled(axis, daily, weekly, trend_flag, size, slope, mode) ==
    Compose(mode,
            DailySeasonality(axis, daily, mode),
            WeeklySeasonality(axis, weekly, mode),
            add_trend(axis, trend_flag, size, mode, slope),
            add_cycles(axis, cyclic_period, mode))

(* Lines 88-106 of generate: the four components, composed and rescaled,     *)
(* for one time axis, presence flags, slope draw and mode.                   *)
BaseSeries(axis, daily, weekly, trend_flag, size, slope, mode) ==
    MinMaxScale(Compose(mode,
                        DailySeasonality(axis, daily, mode),
                        WeeklySeasonality(axis, weekly, mode),
                        add_trend(axis, trend_flag, size, mode, slope),
                        add_cycles(axis, cyclic_period, mode)))

(* The base series of the same axis, flags and slope draw under each mode. *)
CallBaseSeries ==
    /\ call.op = "none"
    /\ \E axis \in AxisInputs, daily \in PresenceInputs, weekly \in PresenceInputs,
          trend_flag \in PresenceInputs, size \in Range(data_sizes), slope \in {1, -1} :
         call' = [op     |-> "base_series",
                  axis   |-> axis,
                  daily  |-> daily,
                  weekly |-> weekly,
                  trend  |-> trend_flag,
                  size   |-> size,
                  slope  |-> slope,
                  result |-> [mode \in ModeInputs |->
                                BaseSeries(axis, daily, weekly, trend_flag, size, slope, mode)]]
    /\ UNCHANGED genVars

NoiseInputs == {"small", "large", "no"}

CallAddNoise ==
    /\ call.op = "none"
    /\ \E X \in SeriesInputs, level \in NoiseInputs :
         \E z \in NormalDraws(Len(X), Len(X)) :
           call' = [op     |-> "add_noise",
                    X      |-> X,
                    level  |-> level,
                    result |-> add_noise(X, level, z)]
    /\ UNCHANGED genVars

NextCalls ==
    \/ CallAddOutliers
    \/ CallAddNoise
    \/ CallGenerateTimeSeries
    \/ CallCreate
    \/ CallBaseSeries
    \/ CallAddMissingValues
    \/ CallWeeklySeasonality
    \/ CallDailySeasonality
    \/ CallAddTrend
    \/ CallAddCycles

SpecCalls == Init /\ [][NextCalls]_vars

-----------------------------------------------------------------------------
(* Two generators obtained from the same DataGenerator, pulled in any       *)
(* interleaving.  A pull runs one generator from where it is suspended to   *)
(* its next yield; the other is suspended meanwhile.  Only the loop         *)
(* variables and the id of a frame are kept: the series and the rest of the *)
(* metadata are those of Spec.                                              *)

(* Whether the loops of lines 74 and 77 have another iteration, in frame f. *)
FrameHasNext(f) == IF f.ci > 0 /\ f.rep < Repeats THEN TRUE ELSE f.ci < Len(combinations)

(* Mutant: one counter, kept on the DataGenerator, counts the yields of     *)
(* both generators.                                                         *)
PullSharedCounter(g) ==
    /\ gens[g].pc # "done"
    /\ LET f == gens[g]
           c == gens[1].nyield + gens[2].nyield + 1
       IN  gens' = [gens EXCEPT ![g] =
                      IF FrameHasNext(f)
                      THEN [pc      |-> "suspended",
                            ci      |-> IF f.ci > 0 /\ f.rep < Repeats THEN f.ci ELSE f.ci + 1,
                            rep     |-> IF f.ci > 0 /\ f.rep < Repeats THEN f.rep + 1 ELSE 1,
                            counter |-> c,
                            nyield  |-> f.nyield + 1,
                            id      |-> str(c) \o ".csv"]
                      ELSE [f EXCEPT !.pc = "done"]]
    /\ UNCHANGED <<pc, ci, rep, counter, nyield, data_size, freq, date_rng, comps, data,
                   anomaly, call, legacy>>

(* next(g): lines 72-122 in the frame of generator g, from its creation or  *)
(* its last yield to its next yield, or to its return when the loops are    *)
(* exhausted.  counter is a local of the frame (line 72).                   *)
Pull(g) ==
    /\ gens[g].pc # "done"
    /\ LET f == gens[g]
       IN  gens' = [gens EXCEPT ![g] =
                      IF FrameHasNext(f)
                      THEN [pc      |-> "suspended",
                            ci      |-> IF f.ci > 0 /\ f.rep < Repeats THEN f.ci ELSE f.ci + 1,
                            rep     |-> IF f.ci > 0 /\ f.rep < Repeats THEN f.rep + 1 ELSE 1,
                            counter |-> f.counter + 1,
                            nyield  |-> f.nyield + 1,
                            id      |-> str(f.counter + 1) \o ".csv"]
                      ELSE [f EXCEPT !.pc = "done"]]
    /\ UNCHANGED <<pc, ci, rep, counter, nyield, data_size, freq, date_rng, comps, data,
                   anomaly, call, legacy>>

NextTwo == \E g \in Generators : Pull(g)

SpecTwo == Init /\ [][NextTwo]_vars

-----------------------------------------------------------------------------
(* The legacy script run beside generate on the same parameter axes and the *)
(* same draws: after generate has yielded its k-th pair, main runs its k-th *)
(* iteration with the data size and frequency generate drew, and generate   *)
(* resumes once main is back at its loop headers.  An iteration of main has *)
(* no yield and is one step.  Of the manifest, which main only appends to,  *)
(* the length and the record just appended are kept.                        *)

(* Lines 193-199 of main: the nested loops, the outermost first. *)
main_loops ==
    <<daily_seasonality_options, weekly_seasonality_options, noise_levels, trend_levels,
      cyclic_periods, percentage_outliers_options, data_types>>

(* Lines 221-230 of main: the stages of an iteration, in the order they run. *)
main_stages == <<"compose", "rescale", "noise", "outliers", "missing">>

(* Mutant: the outermost loop advances first. *)
RECURSIVE AdvanceLoopsOutermostFirst(_, _)
AdvanceLoopsOutermostFirst(idx, a) ==
    LET b == Len(main_loops) + 1 - a
    IN  IF a = 0 THEN <<>>
        ELSE IF idx[b] < Len(main_loops[b]) THEN [idx EXCEPT ![b] = idx[b] + 1]
        ELSE AdvanceLoopsOutermostFirst([idx EXCEPT ![b] = 1], a - 1)

(* The loop variables after the loop of depth a has finished a pass of its  *)
(* body: it takes its next value, or, when it has none, ends and the loop   *)
(* around it advances; <<>> when the outermost loop ends.                   *)
RECURSIVE AdvanceLoops(_, _)
AdvanceLoops(idx, a) ==
    IF a = 0 THEN <<>>
    ELSE IF idx[a] < Len(main_loops[a]) THEN [idx EXCEPT ![a] = idx[a] + 1]
    ELSE AdvanceLoops([idx EXCEPT ![a] = 1], a - 1)

(* Whether main has another iteration of its innermost body. *)
MainHasNext ==
    IF legacy.idx = <<>>
    THEN \A a \in 1..Len(main_loops) : Len(main_loops[a]) > 0
    ELSE legacy.rep < Repeats \/ AdvanceLoops(legacy.idx, Len(main_loops)) # <<>>

(* Lines 200-263: one iteration of main's innermost body, with the data     *)
(* size and frequency of generate's current repeat as its draws.            *)
MainIteration ==
    /\ pc = "yielded"
    /\ legacy.pc = "loops"
    /\ legacy.meta_data_len = nyield - 1
    /\ MainHasNext
    /\ LET idx == IF legacy.idx = <<>> THEN [a \in 1..Len(main_loops) |-> 1]
                  ELSE IF legacy.rep < Repeats THEN legacy.idx
                  ELSE AdvanceLoops(legacy.idx, Len(main_loops))
           c   == legacy.counter + 1
       IN  legacy' =
             [pc            |-> "appended",
              idx           |-> idx,
              rep           |-> IF legacy.idx # <<>> /\ legacy.rep < Repeats
                                THEN legacy.rep + 1 ELSE 1,
              counter       |-> c,
              cyclic_period |-> "exist",
              meta_data_len |-> legacy.meta_data_len + 1,
              last          |->
                [stages |-> main_stages,
                 record |->
                   [id                 |-> str(c) \o ".csv",
                    data_type          |-> main_loops[7][idx[7]],
                    daily_seasonality  |-> main_loops[1][idx[1]],
                    weekly_seasonality |-> main_loops[2][idx[2]],
                    trend              |-> main_loops[4][idx[4]],
                    data_size          |-> data_size,
                    percentage_outliers |-> main_loops[6][idx[6]],
                    percentage_missing |-> PercentageMissing,
                    freq               |-> freq]
                   @@ ("noise (high 30% - low 10%)" :> main_loops[3][idx[3]])
                   @@ ("cyclic_period (3 months)" :> "exist")]]
    /\ UNCHANGED <<pc, ci, rep, counter, nyield, data_size, freq, date_rng, comps, data,
                   anomaly, call, gens>>

(* Line 263 to the loop headers: the record stays in the manifest and is    *)
(* not read again.                                                          *)
MainLoopBack ==
    /\ legacy.pc = "appended"
    /\ legacy' = [legacy EXCEPT !.pc = "loops", !.last = <<>>]
    /\ UNCHANGED <<pc, ci, rep, counter, nyield, data_size, freq, date_rng, comps, data,
                   anomaly, call, gens>>

(* generate is pulled again once main has caught up. *)
ResumeAfterMain ==
    /\ legacy.pc = "loops"
    /\ legacy.meta_data_len = nyield
    /\ Resume

(* Lines 266-267: the loops are exhausted and the manifest is written. *)
MainFinish ==
    /\ legacy.pc = "loops"
    /\ ~MainHasNext
    /\ legacy' = [legacy EXCEPT !.pc = "done"]
    /\ UNCHANGED <<pc, ci, rep, counter, nyield, data_size, freq, date_rng, comps, data,
                   anomaly, call, gens>>

NextLegacy ==
    \/ NextRepeat
    \/ ComposeStage
    \/ RescaleStage
    \/ NoiseStage
    \/ OutliersStage
    \/ MissingStage
    \/ MainIteration
    \/ MainLoopBack
    \/ ResumeAfterMain
    \/ Finish
    \/ MainFinish

SpecLegacy == Init /\ [][NextLegacy]_vars

-----------------------------------------------------------------------------
(* Properties of the corruptors and synthesizers called directly            *)
(* (SpecCalls).                                                             *)

InUnit(x) == ~IsNaN(x) /\ RLe(Rat(-1, 1), x) /\ RLe(x, Rat(1, 1))

Flagged(mask) == {i \in DOMAIN mask : mask[i]}

Missing(X) == {i \in DOMAIN X : IsNaN(X[i])}

(* round(num / den) as Python rounds: to the nearest integer, a half to the *)
(* even one.                                                                *)
RoundHalfEven(num, den) ==
    LET q == num \div den
        r == 2 * (num % den)
    IN  IF r < den THEN q
        ELSE IF r > den THEN q + 1
        ELSE IF q % 2 = 0 THEN q ELSE q + 1

Distinct(indices) ==
    \A j, k \in DOMAIN indices : j # k => indices[j] # indices[k]

(* C1, as stated: add_outliers returns a mask of the length of the series   *)
(* with exactly round(p * n) positions true, all distinct.                  *)
C1_OutlierCountRounded ==
    call.op = "add_outliers" =>
        /\ Len(call.anomaly) = Len(call.X)
        /\ Distinct(call.indices)
        /\ Cardinality(Flagged(call.anomaly)) = RoundHalfEven(Len(call.X) * call.pct, 100)

(* C1, amended: the mask has the length of the series and exactly           *)
(* int(p * n) positions true, all distinct: the count c is the product      *)
(* truncated, c <= p * n < c + 1.                                           *)
C1_OutlierCountTruncated ==
    call.op = "add_outliers" =>
        LET c == Cardinality(Flagged(call.anomaly))
        IN  /\ Len(call.anomaly) = Len(call.X)
            /\ Distinct(call.indices)
            /\ Len(call.indices) = c
            /\ c * 100 <= Len(call.X) * call.pct
            /\ Len(call.X) * call.pct < (c + 1) * 100

C1_Witness ==
    /\ call.op = "add_outliers"
    /\ Cardinality(Flagged(call.anomaly)) >= 1
    /\ (Len(call.X) * call.pct) % 100 >= 50

(* C2: after add_outliers the mask is true at exactly the replaced          *)
(* positions; a flagged position holds a value in [-1, 1], an unflagged one *)
(* its input value; with an outlier count of 0 the series is the input and  *)
(* the mask is all false.                                                   *)
C2_MaskMarksReplaced ==
    call.op = "add_outliers" =>
        /\ \A i \in 1..Len(call.X) :
             /\ call.anomaly[i] <=> (\E j \in DOMAIN call.indices : call.indices[j] = i)
             /\ call.anomaly[i] => InUnit(call.result[i])
             /\ ~call.anomaly[i] => call.result[i] = call.X[i]
        /\ Len(call.X) * call.pct < 100 =>
             (call.result = call.X /\ Flagged(call.anomaly) = {})

C2_Witness ==
    /\ call.op = "add_outliers"
    /\ \E i, j \in 1..Len(call.X) :
         /\ call.anomaly[i]
         /\ ~InUnit(call.X[i])
         /\ ~call.anomaly[j]
         /\ ~InUnit(call.result[j])

(* C3, as stated: add_missing_values returns a series of the same length    *)
(* with exactly round(p * n) positions NaN, the others as in the input.     *)
C3_MissingCountRounded ==
    call.op = "add_missing_values" =>
        /\ Len(call.result) = Len(call.X)
        /\ Cardinality(Missing(call.result)) = RoundHalfEven(Len(call.X) * call.pct, 100)
        /\ \A i \in 1..Len(call.X) : ~IsNaN(call.result[i]) => call.result[i] = call.X[i]

(* C3, amended: a series of the same length with exactly int(p * n)         *)
(* positions NaN (the count c is the product truncated, c <= p * n < c + 1),*)
(* the others as in the input.                                              *)
C3_MissingCountTruncated ==
    call.op = "add_missing_values" =>
        LET c == Cardinality(Missing(call.result))
        IN  /\ Len(call.result) = Len(call.X)
            /\ c * 100 <= Len(call.X) * call.pct
            /\ Len(call.X) * call.pct < (c + 1) * 100
            /\ \A i \in 1..Len(call.X) : ~IsNaN(call.result[i]) => call.result[i] = call.X[i]

C3_Witness ==
    /\ call.op = "add_missing_values"
    /\ (Len(call.X) * call.pct) % 100 >= 50
    /\ \E i, j \in 1..Len(call.X) : IsNaN(call.result[i]) /\ ~IsNaN(call.result[j])

(* C7: a synthesizer called with a presence flag other than "exist" returns *)
(* a sequence of the length of the time axis whose every element is the     *)
(* neutral element of the operator the composer uses for the mode: 1 for    *)
(* 'multiplicative', where components are multiplied, 0 for every other     *)
(* mode, where they are summed.                                             *)
C7_AbsentIsNeutral ==
    (/\ call.op \in {"WeeklySeasonality", "DailySeasonality", "add_trend", "add_cycles"}
     /\ call.flag # "exist") =>
        /\ ~call.result.scalar
        /\ Len(call.result.val) = Len(call.axis)
        /\ \A i \in 1..Len(call.axis) :
             call.result.val[i] = IF call.mode = "multiplicative" THEN One ELSE Zero

-----------------------------------------------------------------------------
(* Properties of DataGenerator.generate (Spec).                             *)

IsConstant(X) == \A i, j \in DOMAIN X : X[i] = X[j]

(* C4: the anomaly mask of a yielded pair is the one the outlier stage      *)
(* returned: neither the noise stage nor the missing-value stage (whose     *)
(* result is what is yielded) sets or clears a flag.                        *)
C4_MaskOnlyFromOutlierStage ==
    [][(pc \in {"noise", "missing"}) =>
          /\ anomaly' = anomaly
          /\ (pc' = "yielded" => Series'.anomaly = anomaly)]_vars

C4_Witness ==
    /\ pc = "yielded"
    /\ Flagged(anomaly) # {}
    /\ \E i \in DOMAIN data : IsNaN(data[i]) /\ ~anomaly[i]

(* C5: value, timestamp and anomaly of a yielded series have the same       *)
(* length, the number of timestamps of the repeat's time axis.              *)
C5_EqualLengths ==
    pc = "yielded" =>
        /\ Len(Series.value) = Len(Series.timestamp)
        /\ Len(Series.anomaly) = Len(Series.timestamp)
        /\ Len(Series.timestamp) = (data_size * MinutesPerDay) \div FreqMinutes(freq) + 1

C5_Witness ==
    /\ pc = "yielded"
    /\ Len(Series.value) = 21
    /\ Missing(Series.value) # {}
    /\ data_type = "multiplicative"

(* C6: the stages of a repeat run once each in the order compose, rescale,  *)
(* noise, outliers, missing values, each on the output of the one before:   *)
(* the noise stage adds to every rescaled value a multiple of its magnitude,*)
(* the outlier stage keeps every value it does not flag and the missing     *)
(* stage every value it does not blank, so nothing is scaled again.         *)
C6_StageOrder ==
    [][/\ pc' # pc =>
            <<pc, pc'>> \in {<<"loop", "compose">>, <<"compose", "rescale">>,
                             <<"rescale", "noise">>, <<"rescale", "raised">>,
                             <<"noise", "outliers">>, <<"outliers", "missing">>,
                             <<"missing", "yielded">>, <<"yielded", "loop">>,
                             <<"loop", "done">>}
       /\ pc = "noise" =>
            /\ Len(data') = Len(data)
            /\ \A i \in DOMAIN data :
                 \E z \in NormalOutcomes :
                    data'[i] = RAdd(data[i],
                                    RMul(RMul(RAbs(data[i]), NoiseCoefficient(noise_level)), z))
       /\ pc = "outliers" =>
            /\ Len(data') = Len(data)
            /\ \A i \in DOMAIN data : ~anomaly'[i] => data'[i] = data[i]
       /\ pc = "missing" =>
            /\ Len(data') = Len(data)
            /\ \A i \in DOMAIN data : ~IsNaN(data'[i]) => data'[i] = data[i]]_vars

C6_Witness ==
    /\ pc = "yielded"
    /\ Flagged(anomaly) # {}
    /\ Missing(data) # {}
    /\ \E i \in DOMAIN data : ~IsNaN(data[i]) /\ ~anomaly[i] /\ ~InUnit(data[i])

(* The composed signal without the components whose presence flag is not    *)
(* "exist".                                                                 *)
ComposePresent(i) ==
    LET present == {c \in {"daily", "weekly", "trend", "cyclic"} :
                      CASE c = "daily"  -> daily_seasonality = "exist"
                        [] c = "weekly" -> weekly_seasonality = "exist"
                        [] c = "trend"  -> trend = "exist"
                        [] c = "cyclic" -> cyclic_period = "exist"}
        at(c) == IF c = "cyclic" THEN Broadcast(comps.cyclic, Len(date_rng))[i] ELSE comps[c][i]
        neutral == IF data_type = "multiplicative" THEN One ELSE Zero
        op(a, b) == IF data_type = "multiplicative" THEN RMul(a, b) ELSE RAdd(a, b)
        term(c) == IF c \in present THEN at(c) ELSE neutral
    IN  op(op(op(term("daily"), term("weekly")), term("trend")), term("cyclic"))

(* C8: the composed signal is the pointwise product of the four components  *)
(* in 'multiplicative' mode and their pointwise sum in every other mode,    *)
(* and a component whose presence flag is absent does not change it.        *)
C8_ComposedIgnoresAbsent ==
    pc = "rescale" =>
        \A i \in 1..Len(date_rng) :
            /\ data[i] = IF data_type = "multiplicative"
                         THEN RMul(RMul(RMul(comps.daily[i], comps.weekly[i]), comps.trend[i]),
                                   Broadcast(comps.cyclic, Len(date_rng))[i])
                         ELSE RAdd(RAdd(RAdd(comps.daily[i], comps.weekly[i]), comps.trend[i]),
                                   Broadcast(comps.cyclic, Len(date_rng))[i])
            /\ data[i] = ComposePresent(i)

(* C9: a composed signal that is not constant is rescaled by one increasing *)
(* affine map onto [-1, 1]: every value lands in [-1, 1], the minimum on -1,*)
(* the maximum on 1, and the order of the values is kept.                   *)
C9_RescaleOntoUnit ==
    [][(pc = "rescale" /\ Len(data) > 0 /\ ~IsConstant(data)) =>
          LET lo == SeqMin(data)
              hi == SeqMax(data)
          IN  /\ pc' = "noise"
              /\ Len(data') = Len(data)
              /\ \A i \in DOMAIN data :
                   /\ InUnit(data'[i])
                   /\ data[i] = lo => data'[i] = Rat(-1, 1)
                   /\ data[i] = hi => data'[i] = Rat(1, 1)
                   /\ RMul(RAdd(data'[i], One), RSub(hi, lo)) = RMul(Rat(2, 1), RSub(data[i], lo))
              /\ \A i, j \in DOMAIN data : RLt(data[i], data[j]) => RLt(data'[i], data'[j])]_vars

C9_Witness ==
    /\ pc = "noise"
    /\ \E i, j, k \in DOMAIN data :
         /\ data[i] = Rat(-1, 1)
         /\ data[j] = Rat(1, 1)
         /\ RLt(data[i], data[k])
         /\ RLt(data[k], data[j])

(* C10, as stated: when every value of the composed signal is the same, the *)
(* rescale step raises and the repeat yields no series.                     *)
C10_ConstantRaises ==
    [][(pc = "rescale" /\ Len(data) > 0 /\ IsConstant(data)) => pc' = "raised"]_vars

(* C10, amended: when every value of the composed signal is the same, the   *)
(* rescale step does not fail: the scaler divides by 1 instead of the zero  *)
(* range, every rescaled value is -1, and the repeat goes on to the noise   *)
(* stage.                                                                   *)
C10_ConstantMapsToLowerBound ==
    [][(pc = "rescale" /\ Len(data) > 0 /\ IsConstant(data)) =>
          /\ pc' = "noise"
          /\ Len(data') = Len(data)
          /\ \A i \in DOMAIN data' : data'[i] = Rat(-1, 1)]_vars

C10_Witness ==
    /\ pc = "noise"
    /\ Len(data) > 0
    /\ \A i \in DOMAIN data : data[i] = Rat(-1, 1)
-----------------------------------------------------------------------------
(* Properties of Noise.add_noise called directly (SpecCalls).                *)

(* C11: add_noise returns a series as long as its input; a position whose    *)
(* input value is 0, at any noise level, or whose noise level is neither     *)
(* "small" nor "large", holds the input value in the output; so an all-zero  *)
(* input gives an all-zero output.                                           *)
C11_NoiseKeepsZerosAndUnknownLevels ==
    call.op = "add_noise" =>
        /\ Len(call.result) = Len(call.X)
        /\ \A i \in 1..Len(call.X) :
              (call.X[i] = Zero \/ call.level \notin {"small", "large"})
                  => call.result[i] = call.X[i]
        /\ (\A i \in 1..Len(call.X) : call.X[i] = Zero)
              => \A i \in 1..Len(call.result) : call.result[i] = Zero

C11_Witness ==
    /\ call.op = "add_noise"
    /\ call.level = "small"
    /\ \E i, j \in 1..Len(call.X) :
          /\ call.X[i] = Zero /\ call.result[i] = Zero
          /\ call.X[j] # Zero /\ call.result[j] # call.X[j]

-----------------------------------------------------------------------------
(* Properties of the pairs generate yields (Spec).                           *)

(* C12: within one run the k-th yielded pair carries the id "k.csv": the     *)
(* ids start at 1, step by 1 without gaps and are strictly increasing; the   *)
(* counter is not reset between combinations.                                *)
C12_IdIsYieldNumber ==
    /\ pc = "yielded" => nyield >= 1 /\ Metadata.id = ToString(nyield) \o ".csv"
    /\ pc # "yielded" => counter \in {nyield, nyield + 1}

C12_Witness ==
    /\ pc = "yielded"
    /\ ci = 2
    /\ rep = 1
    /\ Metadata.id = "17.csv"

(* The number of combinations a step of axis a spans in the cross product:   *)
(* the product of the sizes of the axes after a.                             *)
RECURSIVE AxisStride(_)
AxisStride(a) ==
    IF a = Len(config_params) THEN 1 ELSE Len(config_params[a + 1]) * AxisStride(a + 1)

(* C13: generate is finite: each element of the cross product of the seven   *)
(* axes gets exactly 16 consecutive pairs, the elements are visited in       *)
(* cross-product order with the data type varying fastest, the run yields    *)
(* 16 times the product of the axis sizes pairs (none when an axis is empty) *)
(* and then ends.                                                            *)
C13_SixteenPerCombinationInOrder ==
    /\ pc = "yielded" =>
          /\ rep \in 1..16
          /\ nyield = (ci - 1) * 16 + rep
          /\ \A a \in 1..7 :
                configs[a] =
                  config_params[a][(((ci - 1) \div AxisStride(a)) % Len(config_params[a])) + 1]
    /\ pc = "done" =>
          /\ nyield = 16 * Len(config_params[1]) * AxisStride(1)
          /\ ~ENABLED Next
    /\ product(<<daily_seasonality_options, <<>>, data_types>>) = <<>>

C13_Witness ==
    /\ pc = "done"
    /\ nyield = 16 * Len(combinations)
    /\ nyield > 16

(* C14: every metadata record has 'cyclic_period (3 months)' equal to        *)
(* "exist" and the cyclic component of its series is the one computed with   *)
(* presence "exist", whatever cyclic value the combination holds.            *)
C14_CyclicAlwaysExist ==
    pc = "yielded" =>
        /\ Metadata["cyclic_period (3 months)"] = "exist"
        /\ ~comps.cyclic.scalar
        /\ Len(comps.cyclic.val) = Len(date_rng)
        /\ \A i \in 1..Len(date_rng) :
              comps.cyclic.val[i] =
                RAdd(IF configs[7] = "multiplicative" THEN One ELSE Zero,
                     SinQuarter(quarter(date_rng[i])))

C14_Witness ==
    /\ pc = "yielded"
    /\ configs[5] = "no"
    /\ Metadata["cyclic_period (3 months)"] = "exist"
    /\ \E i \in 1..Len(date_rng) : comps.cyclic.val[i] # comps.cyclic.val[1]

(* The part of C15 that holds as stated: the record names the combination    *)
(* and the draws its series was built from.                                  *)
MetadataNamesCombinationAndDraws ==
    /\ Metadata.data_type = configs[7]
    /\ Metadata.daily_seasonality = configs[1]
    /\ Metadata.weekly_seasonality = configs[2]
    /\ Metadata["noise (high 30% - low 10%)"] = configs[3]
    /\ Metadata.trend = configs[4]
    /\ Metadata.data_size \in Range(data_sizes)
    /\ Metadata.freq \in Range(frequencies)
    /\ date_rng[Len(date_rng)] - date_rng[1] = Metadata.data_size * MinutesPerDay
    /\ \A i \in 1..(Len(date_rng) - 1) :
          date_rng[i + 1] - date_rng[i] = FreqMinutes(Metadata.freq)

(* C15, as stated: each metadata record describes its series: data_type,     *)
(* the seasonalities, noise level and trend are the combination's, data_size *)
(* and freq are the values drawn, and percentage_outliers and                *)
(* percentage_missing are the realized fractions of flagged and of NaN       *)
(* positions.                                                                *)
C15_MetadataRealizedFractions ==
    pc = "yielded" =>
        /\ MetadataNamesCombinationAndDraws
        /\ Metadata.percentage_outliers * Len(data) = 100 * Cardinality(Flagged(anomaly))
        /\ Metadata.percentage_missing * Len(data) = 100 * Cardinality(Missing(data))

(* C15, amended: percentage_outliers is the combination's nominal fraction   *)
(* and percentage_missing the constant 0.05; the series has int(p n) flagged *)
(* and int(0.05 n) NaN positions.                                            *)
C15_MetadataNominalFractions ==
    pc = "yielded" =>
        /\ MetadataNamesCombinationAndDraws
        /\ Metadata.percentage_outliers = configs[6]
        /\ Metadata.percentage_missing = 5
        /\ LET f == Cardinality(Flagged(anomaly))
               m == Cardinality(Missing(data))
           IN  /\ 100 * f <= configs[6] * Len(data) /\ configs[6] * Len(data) < 100 * (f + 1)
               /\ 100 * m <= 5 * Len(data) /\ 5 * Len(data) < 100 * (m + 1)

C15_Witness ==
    /\ pc = "yielded"
    /\ Len(data) = 21
    /\ Cardinality(Flagged(anomaly)) = 1
    /\ Cardinality(Missing(data)) = 1
    /\ Metadata.percentage_missing = 5

-----------------------------------------------------------------------------
(* Properties of the time axis (SpecCalls).                                  *)

StrictlyIncreasing(axis) == \A i \in 1..(Len(axis) - 1) : axis[i] < axis[i + 1]

(* The month a timestamp of the model's years falls in, counted from         *)
(* January 2021.                                                             *)
MonthNumber(ts) == 12 * ((ts \div MinutesPerDay) \div 365) + month(ts)

-----------------------------------------------------------------------------
(* Properties of ConfigurationManagerCreator.create (SpecCalls).             *)

(* C17: create, called as the tests call it with only a source path,         *)
(* returns a YamlConfigurationManager for a path ending in '.yml', a         *)
(* JsonConfigurationManager for a path ending in '.json', and raises before  *)
(* any configuration is read for a path of any other, unsupported,           *)
(* extension.                                                                *)
C17_CreateFromSourcePathOnly ==
    (call.op = "create" /\ Len(call.args) = 1) =>
        LET source == call.args[1]
        IN  /\ endswith(source, ".yml") =>
                  (call.result.outcome = "returned"
                     => call.result.what = "YamlConfigurationManager")
                  /\ call.result.what # "TypeError"
            /\ endswith(source, ".json") =>
                  (call.result.outcome = "returned"
                     => call.result.what = "JsonConfigurationManager")
                  /\ call.result.what # "TypeError"
            /\ (~endswith(source, ".yml") /\ ~endswith(source, ".json")
                  /\ ~endswith(source, ".sqlite3")) =>
                  call.result.outcome = "raised" /\ ~call.result.read_called

-----------------------------------------------------------------------------
(* Properties of Trend.add_trend called directly (SpecCalls).                *)

-----------------------------------------------------------------------------
(* The flagged values and the missing values (Spec).                         *)

(* C19: every flagged position holds a value in [-1, 1] once the outlier     *)
(* stage has run; the missing-value stage, whose positions are drawn         *)
(* independently and afterwards, does not keep this: generate can yield a    *)
(* series with a position that is flagged and NaN (the witness).             *)
C19_FlaggedInUnitAfterOutliers ==
    pc = "missing" => \A i \in Flagged(anomaly) : InUnit(data[i])

C19_Witness ==
    /\ pc = "yielded"
    /\ \E i \in 1..Len(data) : anomaly[i] /\ IsNaN(data[i])

-----------------------------------------------------------------------------
(* The default mode and the additive mode (SpecCalls).                       *)

(* C21: for the same time axis, presence flags and slope draw, the rescaled  *)
(* base series of the default mode (a mode that is neither "additive" nor    *)
(* "multiplicative") equals the one of the additive mode, although absent    *)
(* components are 1 instead of 0 in the default mode: the rescaling cancels  *)
(* the constant shift.                                                       *)
C21_DefaultEqualsAdditiveAfterRescale ==
    call.op = "base_series" => call.result[""] = call.result["additive"]

C21_Witness ==
    /\ call.op = "base_series"
    /\ call.daily = "no"
    /\ call.weekly = "no"
    /\ call.trend = "exist"
    /\ call.result[""] = call.result["additive"]
    /\ call.result[""] # call.result["multiplicative"]
    /\ \E i \in 1..Len(call.axis) : call.result[""][i] # call.result[""][1]

-----------------------------------------------------------------------------
(* Two generators pulled in any interleaving (SpecTwo).                      *)

(* C22: the id counter is private to each invocation of generate: however    *)
(* the pulls on two generators of one DataGenerator interleave, the k-th     *)
(* pair of each carries the id "k.csv", in order and without gaps; pulls on  *)
(* one never change the ids of the other, and the two yield the same ids.    *)
C22_CounterPrivateToInvocation ==
    \A g \in Generators :
        /\ gens[g].pc = "suspended" =>
              gens[g].nyield >= 1 /\ gens[g].id = ToString(gens[g].nyield) \o ".csv"
        /\ gens[g].counter = gens[g].nyield

C22_Witness ==
    /\ gens[1].pc = "suspended"
    /\ gens[2].pc = "suspended"
    /\ gens[1].nyield = 3
    /\ gens[2].nyield = 2
    /\ gens[1].id = "3.csv"
    /\ gens[2].id = "2.csv"

-----------------------------------------------------------------------------
(* generate beside the legacy script (SpecLegacy).                           *)

(* The k-th record of main's manifest is the k-th metadata record of         *)
(* generate, and the two run as many iterations.                             *)
SameRecords ==
    /\ legacy.meta_data_len \in {nyield - 1, nyield}
    /\ legacy.pc = "appended" =>
          /\ pc = "yielded"
          /\ legacy.meta_data_len = nyield
          /\ legacy.last.stages = main_stages
          /\ legacy.last.record = Metadata
          /\ legacy.last.record.id = ToString(nyield) \o ".csv"
          /\ legacy.rep = rep
          /\ \A a \in 1..7 : main_loops[a][legacy.idx[a]] = configs[a]
    /\ pc = "done" => legacy.meta_data_len = nyield /\ ~MainHasNext
    /\ legacy.pc = "done" => legacy.meta_data_len = 16 * Len(combinations)

(* The stages of generate run in the order of main's. *)
SameStageOrder ==
    /\ (pc = "loop" /\ pc' \notin {"loop", "done"}) => pc' = main_stages[1]
    /\ \A j \in 1..Len(main_stages) :
          (pc = main_stages[j] /\ pc' # pc) =>
              pc' = IF j < Len(main_stages) THEN main_stages[j + 1] ELSE "yielded"

(* C23: for the same parameter axes and the same draws, generate yields the  *)
(* same sequence of ids, metadata records and stages as the legacy main      *)
(* appends to its manifest: the product visits the combinations in the order *)
(* of main's nested loops, with 16 repeats each and the cyclic value         *)
(* overwritten to "exist" in both.                                           *)
C23_GenerateMatchesLegacyMain == []SameRecords /\ [][SameStageOrder]_vars

C23_Witness ==
    /\ pc = "yielded"
    /\ nyield = 17
    /\ legacy.meta_data_len = 17
    /\ legacy.idx = <<1, 1, 1, 1, 1, 1, 2>>
    /\ legacy.pc = "appended"
    /\ legacy.last.record = Metadata
    /\ legacy.last.record.id = "17.csv"

=============================================================================
